---- MODULE Spec2Model ----
(***************************************************************************)
(* SBV -> WebVTT conversion core of functions/api/convert.ts.              *)
(*                                                                         *)
(* JavaScript strings are modelled as sequences of one-character strings,  *)
(* positions are the 0-based indices of the source, and the regular        *)
(* expressions of the source are modelled by what they match.              *)
(***************************************************************************)
EXTENDS Integers, Sequences, FiniteSets, TLC

VARIABLES
    \* ---- italicizeLineWholeWords (one call) ----
    phrases,    \* the phrase list handed to buildItalicsRegex
    italicsRe,  \* the compiled rule: [null, alts]
    rawLine,    \* the raw cue line
    out,        \* the output built so far
    last,       \* end of the previous phrase span
    lastIndex,  \* where matchAll resumes
    spans,      \* <<phraseStart, phraseEnd>> of every iteration so far
    ipc,        \* position in the call
    \* ---- normalizeHour (one call) ----
    ts,         \* the argument
    nres,       \* the returned string
    npc,        \* position in the call
    \* ---- sbvToVtt (one call) ----
    sbvText,    \* the raw document
    lines,      \* the document split into lines
    i,          \* the line index
    pc,         \* position in the loop
    start,      \* start field of the cue being read
    end,        \* end field of the cue being read
    cueLines,   \* text lines of the cue being read
    vtt,        \* the output built so far
    cues,       \* every cue emitted so far: [start, end, lines]
    consumed    \* <<line index, how it was consumed>> of every line consumed so far

ivars == <<phrases, italicsRe, rawLine, out, last, lastIndex, spans, ipc>>
nvars == <<ts, nres, npc>>
pvars == <<sbvText, lines, i, pc, start, end, cueLines, vtt, cues, consumed>>
vars == <<phrases, italicsRe, rawLine, out, last, lastIndex, spans, ipc,
          ts, nres, npc,
          sbvText, lines, i, pc, start, end, cueLines, vtt, cues, consumed>>

(***************************************************************************)
(* Characters                                                              *)
(***************************************************************************)
LowerSeq == <<"a","b","c","d","e","f","g","h","i","j","k","l","m",
              "n","o","p","q","r","s","t","u","v","w","x","y","z">>
UpperSeq == <<"A","B","C","D","E","F","G","H","I","J","K","L","M",
              "N","O","P","Q","R","S","T","U","V","W","X","Y","Z">>
Digits == {"0","1","2","3","4","5","6","7","8","9"}
Letters == {LowerSeq[k] : k \in 1..26} \cup {UpperSeq[k] : k \in 1..26}

\* [\p{L}\p{N}]
WORD_CH(c) == c \in Letters \cup Digits
\* [^\p{L}\p{N}]
NOT_WORD_CH(c) == ~WORD_CH(c)
\* \s, and the characters trim() removes
IsSpace(c) == c \in {" ", "\t", "\n", "\r"}
\* the canonical form two characters share when the i flag makes them equal
Fold(c) == IF \E k \in 1..26 : UpperSeq[k] = c
           THEN LowerSeq[CHOOSE k \in 1..26 : UpperSeq[k] = c]
           ELSE c

(***************************************************************************)
(* String primitives                                                       *)
(***************************************************************************)
\* s.slice(a, b), 0-based, end exclusive
Slice(s, a, b) == SubSeq(s, a + 1, b)

\* the concatenation of a sequence of strings
RECURSIVE Flatten(_)
Flatten(ss) ==
    IF Len(ss) = 0 THEN <<>>
    ELSE IF Len(ss) = 1 THEN ss[1]
    ELSE LET h == Len(ss) \div 2
         IN  Flatten(SubSeq(ss, 1, h)) \o Flatten(SubSeq(ss, h + 1, Len(ss)))

\* ss.join(sep)
Join(ss, sep) == Flatten([k \in 1..Len(ss) |-> IF k = 1 THEN ss[k] ELSE sep \o ss[k]])

Min(S) == CHOOSE x \in S : \A y \in S : x <= y
Max(S) == CHOOSE x \in S : \A y \in S : x >= y
NonSpaceAt(s) == {k \in 1..Len(s) : ~IsSpace(s[k])}

TrimStart(s) == IF NonSpaceAt(s) = {} THEN <<>> ELSE SubSeq(s, Min(NonSpaceAt(s)), Len(s))

trimEnd(s) == IF NonSpaceAt(s) = {} THEN <<>> ELSE SubSeq(s, 1, Max(NonSpaceAt(s)))

Trim(s) == trimEnd(TrimStart(s))

StartsWithAt(s, p, pat) ==
    /\ p + Len(pat) <= Len(s)
    /\ \A k \in 1..Len(pat) : s[p + k] = pat[k]

\* s.replace(/pat/g, rep) for a pattern that is a fixed text
\* (left to right, each occurrence starting at or after the end of the one before)
RECURSIVE ReplaceAllFrom(_, _, _, _)
ReplaceAllFrom(s, p, pat, rep) ==
    LET at == {q \in p..Len(s) : StartsWithAt(s, q, pat)}
    IN  IF at = {} THEN Slice(s, p, Len(s))
        ELSE Slice(s, p, Min(at)) \o rep \o ReplaceAllFrom(s, Min(at) + Len(pat), pat, rep)

ReplaceAll(s, pat, rep) == ReplaceAllFrom(s, 0, pat, rep)

\* s.split(sep) for a one-character separator
Split(s, sep) ==
    LET at == {k \in 1..Len(s) : s[k] = sep}
        \* the j-th separator; the string's two ends count as the 0-th and the last
        cut(j) == IF j = 0 THEN 0
                  ELSE IF j > Cardinality(at) THEN Len(s) + 1
                  ELSE CHOOSE k \in at : Cardinality({m \in at : m <= k}) = j
    IN  [j \in 1..(Cardinality(at) + 1) |-> SubSeq(s, cut(j - 1) + 1, cut(j) - 1)]

(***************************************************************************)
(* escapeHtml, escapeRegex                                                 *)
(***************************************************************************)
EscapeChar(c) ==
    CASE c = "&"  -> <<"&","a","m","p",";">>
      [] c = "<"  -> <<"&","l","t",";">>
      [] c = ">"  -> <<"&","g","t",";">>
      [] c = "\"" -> <<"&","q","u","o","t",";">>
      [] c = "'"  -> <<"&","#","0","3","9",";">>
      [] OTHER    -> <<c>>

escapeHtml(s) == Flatten([k \in 1..Len(s) |-> EscapeChar(s[k])])

RegexMeta == {".", "*", "+", "?", "^", "$", "{", "}", "(", ")", "|", "[", "]", "\\"}

escapeRegex(s) ==
    Flatten([k \in 1..Len(s) |-> IF s[k] \in RegexMeta THEN <<"\\", s[k]>> ELSE <<s[k]>>])

(***************************************************************************)
(* buildItalicsRegex: the rule is kept as the list of its alternatives,    *)
(* each parsed from the regular-expression source the builder writes.      *)
(***************************************************************************)
\* [...phrases].sort((a, b) => b.length - a.length), a stable sort
RECURSIVE InsertByLength(_, _)
InsertByLength(sorted, x) ==
    IF sorted = <<>> THEN <<x>>
    ELSE IF Len(Head(sorted)) >= Len(x)
         THEN <<Head(sorted)>> \o InsertByLength(Tail(sorted), x)
         ELSE <<x>> \o sorted

RECURSIVE SortLongestFirst(_)
SortLongestFirst(ps) ==
    IF ps = <<>> THEN <<>>
    ELSE InsertByLength(SortLongestFirst(SubSeq(ps, 1, Len(ps) - 1)), ps[Len(ps)])

WsPlus == <<"\\", "s", "+">>

\* p.replace(/\s+/g, String.raw`\s+`)
NormWs(s) ==
    Flatten([k \in 1..Len(s) |->
        IF ~IsSpace(s[k]) THEN <<s[k]>>
        ELSE IF k > 1 /\ IsSpace(s[k - 1]) THEN <<>>
        ELSE WsPlus])

\* .replace(/\\s\+/g, String.raw`\s+`): the pattern /\\s\+/ matches the three
\* characters backslash, s, plus
UndoPattern == <<"\\", "s", "+">>

UndoWsEscape(s) == ReplaceAll(s, UndoPattern, WsPlus)

\* the source text of one alternative
AltSource(p) == UndoWsEscape(escapeRegex(NormWs(Trim(p))))

\* What a source text means as a pattern: a backslash before s is the class \s
\* (with + after it, one or more), a backslash before any other character is
\* that character, any other character is itself.
RECURSIVE ParseRegex(_, _)
ParseRegex(src, p) ==
    IF p > Len(src) THEN <<>>
    ELSE IF src[p] = "\\" /\ p < Len(src)
         THEN IF src[p + 1] = "s"
              THEN IF p + 2 <= Len(src) /\ src[p + 2] = "+"
                   THEN <<[t |-> "ws+", c |-> ""]>> \o ParseRegex(src, p + 3)
                   ELSE <<[t |-> "ws", c |-> ""]>> \o ParseRegex(src, p + 2)
              ELSE <<[t |-> "lit", c |-> src[p + 1]]>> \o ParseRegex(src, p + 2)
         ELSE <<[t |-> "lit", c |-> src[p]]>> \o ParseRegex(src, p + 1)

NoRule == [null |-> TRUE, alts |-> <<>>]

buildItalicsRegex(ps) ==
    IF Len(ps) = 0 THEN NoRule
    ELSE LET sorted == SortLongestFirst(ps)
         IN  [null |-> FALSE,
              alts |-> [k \in 1..Len(sorted) |-> ParseRegex(AltSource(sorted[k]), 1)]]

(***************************************************************************)
(* Matching (^|NOT_WORD)(alt1|alt2|...)(?=$|NOT_WORD) with flags g, i, u   *)
(***************************************************************************)
\* number of whitespace characters from position p on
RECURSIVE SpaceRun(_, _)
SpaceRun(line, p) ==
    IF p < Len(line) /\ IsSpace(line[p + 1]) THEN 1 + SpaceRun(line, p + 1) ELSE 0

\* The positions at which the tokens can end when they start at p, in the order
\* a backtracking matcher tries them (\s+ is greedy).
RECURSIVE MatchTokens(_, _, _)
RECURSIVE MatchAfterSpaces(_, _, _, _)
MatchTokens(toks, line, p) ==
    IF toks = <<>> THEN <<p>>
    ELSE LET tk == Head(toks)
         IN  CASE tk.t = "lit" ->
                    IF p < Len(line) /\ Fold(line[p + 1]) = Fold(tk.c)
                    THEN MatchTokens(Tail(toks), line, p + 1)
                    ELSE <<>>
               [] tk.t = "ws" ->
                    IF p < Len(line) /\ IsSpace(line[p + 1])
                    THEN MatchTokens(Tail(toks), line, p + 1)
                    ELSE <<>>
               [] tk.t = "ws+" ->
                    MatchAfterSpaces(Tail(toks), line, p, SpaceRun(line, p))

MatchAfterSpaces(toks, line, p, n) ==
    IF n < 1 THEN <<>>
    ELSE MatchTokens(toks, line, p + n) \o MatchAfterSpaces(toks, line, p, n - 1)

\* (mutant: the lookahead is left out)
RightBoundaryAny(line, e) == TRUE

\* (?=$|NOT_WORD) at position e
RightBoundary(line, e) == e = Len(line) \/ NOT_WORD_CH(line[e + 1])

\* (^|NOT_WORD) at position s: the lengths of the text group 1 can consume,
\* in the order tried
LeftBoundary(line, s) ==
    (IF s = 0 THEN <<0>> ELSE <<>>)
    \o (IF s < Len(line) /\ NOT_WORD_CH(line[s + 1]) THEN <<1>> ELSE <<>>)

RECURSIVE FirstEnd(_, _)
FirstEnd(ends, line) ==
    IF ends = <<>> THEN -1
    ELSE IF RightBoundary(line, Head(ends)) THEN Head(ends)
    ELSE FirstEnd(Tail(ends), line)

\* the alternation, tried left to right, from phrase start ps: the end, or -1
RECURSIVE TryAlts(_, _, _)
TryAlts(alts, line, ps) ==
    IF alts = <<>> THEN -1
    ELSE LET e == FirstEnd(MatchTokens(Head(alts), line, ps), line)
         IN  IF e >= 0 THEN e ELSE TryAlts(Tail(alts), line, ps)

NoMatch == [found |-> FALSE, index |-> 0, phraseStart |-> 0, phraseEnd |-> 0]

\* a match that starts exactly at s
RECURSIVE MatchAt(_, _, _, _)
MatchAt(alts, line, s, lefts) ==
    IF lefts = <<>> THEN NoMatch
    ELSE LET e == TryAlts(alts, line, s + Head(lefts))
         IN  IF e >= 0
             THEN [found |-> TRUE, index |-> s,
                   phraseStart |-> s + Head(lefts), phraseEnd |-> e]
             ELSE MatchAt(alts, line, s, Tail(lefts))

\* RegExp exec from lastIndex: the leftmost match at or after it
Exec(alts, line, from) ==
    LET at == {s \in from..Len(line) : MatchAt(alts, line, s, LeftBoundary(line, s)).found}
    IN  IF at = {} THEN NoMatch
        ELSE MatchAt(alts, line, Min(at), LeftBoundary(line, Min(at)))

\* where matchAll resumes after a match: its end, one further after an empty match
NextIndex(m) == IF m.phraseEnd = m.index THEN m.index + 1 ELSE m.phraseEnd

(***************************************************************************)
(* italicizeLineWholeWords                                                 *)
(***************************************************************************)
\* (mutant: the phrase is wrapped without being escaped)
WrapPhraseRaw(line, a, b) ==
    <<"<", "i", ">">> \o Slice(line, a, b) \o <<"<", "/", "i", ">">>

\* `<i>${escapeHtml(rawLine.slice(phraseStart, phraseEnd))}</i>`
WrapPhrase(line, a, b) ==
    <<"<", "i", ">">> \o escapeHtml(Slice(line, a, b)) \o <<"<", "/", "i", ">">>

\* (mutant: the text before the match ends at the match, not at the phrase)
LoopAppendDropBoundary(line, lst, m) ==
    escapeHtml(Slice(line, lst, m.index))
    \o <<"<", "i", ">">> \o escapeHtml(Slice(line, m.phraseStart, m.phraseEnd))
    \o <<"<", "/", "i", ">">>

\* what one iteration of the loop appends to out
LoopAppend(line, lst, m) ==
    escapeHtml(Slice(line, lst, m.phraseStart))
    \o WrapPhrase(line, m.phraseStart, m.phraseEnd)

\* the loop from lastIndex on, and the remainder after it
RECURSIVE ItalicizeFrom(_, _, _, _)
ItalicizeFrom(alts, line, from, lst) ==
    LET m == Exec(alts, line, from)
    IN  IF m.found
        THEN LoopAppend(line, lst, m)
             \o ItalicizeFrom(alts, line, NextIndex(m), m.phraseEnd)
        ELSE escapeHtml(Slice(line, lst, Len(line)))

italicizeLineWholeWords(line, re) ==
    IF re.null THEN escapeHtml(line) ELSE ItalicizeFrom(re.alts, line, 0, 0)


(***************************************************************************)
(* Inputs of the italicizer                                                *)
(***************************************************************************)
L_TheArtShow == <<"t","h","e"," ","a","r","t"," ","s","h","o","w">>
L_Start == <<"s","t","a","r","t">>
L_Artistic == <<"a","r","t","i","s","t","i","c">>
L_ArtShow == <<"a","r","t"," ","s","h","o","w">>
L_ModernArt == <<"m","o","d","e","r","n"," ","a","r","t">>
L_ArtArt == <<"a","r","t"," ","a","r","t">>
L_NewYorkCity == <<"I"," ","l","i","v","e"," ","i","n"," ","N","e","w"," ","Y","o","r","k"," ","C","i","t","y">>
L_FooBar == <<"F","o","o"," ","B","a","r">>
L_FooSpacesBar == <<"F","o","o"," "," "," ","B","a","r">>
L_FooTabBar == <<"F","o","o","\t","B","a","r">>
L_Script == <<"<","s","c","r","i","p","t",">">>
L_Specials == <<"<","a","r","t",">"," ","&"," ","\"","A","R","T","\""," ","'","A","r","t","'">>
P_art == <<"a","r","t">>
P_York == <<"Y","o","r","k">>
P_NewYorkCity == <<"N","e","w"," ","Y","o","r","k"," ","C","i","t","y">>
P_FooBar == <<"F","o","o"," ","B","a","r">>
P_a == <<"a">>
P_ab == <<"a","b">>
P_b == <<"b">>
P_a_b == <<"a"," ","b">>
P_lt == <<"<">>
P_a_lt == <<"a","<">>

\* the cue lines of the specification's examples
ExampleLines ==
    {L_TheArtShow, L_Start, L_Artistic, L_ArtShow, L_ModernArt, L_ArtArt,
     L_NewYorkCity, L_FooBar, L_FooSpacesBar, L_FooTabBar, L_Script, L_Specials}

MaxLineLen == 3
ItalAlphabet == {"a", "b", "A", " ", "<"}
Strings(A, n) == UNION {[1..k -> A] : k \in 0..n}

ItalLines == ExampleLines \cup Strings(ItalAlphabet, MaxLineLen)

\* phrase lists as buildItalicsList yields them: trimmed, non-empty phrases
PhraseLists ==
    {<<>>, <<P_art>>, <<P_York, P_NewYorkCity>>, <<P_FooBar>>,
     <<P_a>>, <<P_ab>>, <<P_b, P_ab>>, <<P_a_b>>, <<P_lt>>, <<P_a_lt, P_b>>}

(***************************************************************************)
(* Idle values of the calls a specification does not make                  *)
(***************************************************************************)
ItalIdle ==
    /\ phrases = <<>> /\ italicsRe = NoRule /\ rawLine = <<>> /\ out = <<>>
    /\ last = 0 /\ lastIndex = 0 /\ spans = <<>> /\ ipc = "idle"

NormIdle == ts = <<>> /\ nres = <<>> /\ npc = "idle"

ParseIdle ==
    /\ sbvText = <<>> /\ lines = <<>> /\ i = 0 /\ pc = "idle"
    /\ start = <<>> /\ end = <<>> /\ cueLines = <<>> /\ vtt = <<>>
    /\ cues = <<>> /\ consumed = <<>>

(***************************************************************************)
(* One call of buildItalicsRegex and italicizeLineWholeWords, step by step *)
(***************************************************************************)
ItalInit ==
    /\ phrases \in PhraseLists
    /\ rawLine \in ItalLines
    /\ italicsRe = NoRule
    /\ out = <<>> /\ last = 0 /\ lastIndex = 0 /\ spans = <<>>
    /\ ipc = "build"
    /\ NormIdle /\ ParseIdle

\* const italicsRe = buildItalicsRegex(phrases)
Build ==
    /\ ipc = "build"
    /\ italicsRe' = buildItalicsRegex(phrases)
    /\ ipc' = "call"
    /\ UNCHANGED <<phrases, rawLine, out, last, lastIndex, spans, nvars, pvars>>

\* if (!italicsRe) return escapeHtml(rawLine)
ItalNoRule ==
    /\ ipc = "call" /\ italicsRe.null
    /\ out' = escapeHtml(rawLine)
    /\ ipc' = "done"
    /\ UNCHANGED <<phrases, italicsRe, rawLine, last, lastIndex, spans, nvars, pvars>>

\* italicsRe.lastIndex = 0; let out = ""; let last = 0
ItalStart ==
    /\ ipc = "call" /\ ~italicsRe.null
    /\ lastIndex' = 0 /\ out' = <<>> /\ last' = 0
    /\ ipc' = "loop"
    /\ UNCHANGED <<phrases, italicsRe, rawLine, spans, nvars, pvars>>

\* one iteration of for (const match of rawLine.matchAll(italicsRe))
ItalMatch ==
    /\ ipc = "loop"
    /\ LET m == Exec(italicsRe.alts, rawLine, lastIndex)
       IN  /\ m.found
           /\ out' = out \o LoopAppend(rawLine, last, m)
           /\ last' = m.phraseEnd
           /\ lastIndex' = NextIndex(m)
           /\ spans' = Append(spans, <<m.phraseStart, m.phraseEnd>>)
    /\ UNCHANGED <<phrases, italicsRe, rawLine, ipc, nvars, pvars>>

\* out += escapeHtml(rawLine.slice(last)); return out
ItalRemainder ==
    /\ ipc = "loop"
    /\ ~Exec(italicsRe.alts, rawLine, lastIndex).found
    /\ out' = out \o escapeHtml(Slice(rawLine, last, Len(rawLine)))
    /\ ipc' = "done"
    /\ UNCHANGED <<phrases, italicsRe, rawLine, last, lastIndex, spans, nvars, pvars>>

ItalNext == Build \/ ItalNoRule \/ ItalStart \/ ItalMatch \/ ItalRemainder

SpecItal == ItalInit /\ [][ItalNext]_vars


(***************************************************************************)
(* Vocabulary of the properties of the italicizer                          *)
(***************************************************************************)
Range(f) == {f[k] : k \in DOMAIN f}
Count(s, c) == Cardinality({k \in 1..Len(s) : s[k] = c})
HtmlSpecials == {"&", "<", ">", "\"", "'"}
Entities == {EscapeChar(c) : c \in HtmlSpecials}
OpenTag == <<"<", "i", ">">>
CloseTag == <<"<", "/", "i", ">">>

\* the phrase occurs at [s, s + Len(p)), letter case ignored
OccursAt(p, line, s) ==
    /\ s + Len(p) <= Len(line)
    /\ \A k \in 1..Len(p) : Fold(line[s + k]) = Fold(p[k])

\* [s, e) has the line start or a non-letter/non-digit before it and the line
\* end or a non-letter/non-digit after it
Bounded(line, s, e) ==
    /\ s = 0 \/ ~(line[s] \in Letters \cup Digits)
    /\ e = Len(line) \/ ~(line[e + 1] \in Letters \cup Digits)

AllAlnum(ps) == \A k \in 1..Len(ps) : \A j \in 1..Len(ps[k]) : ps[k][j] \in Letters \cup Digits

\* the line with every character escaped on its own and the tags put exactly
\* at the ends of the spans
Render(line, sps) ==
    Flatten([k \in 1..Len(line) |->
        (IF \E sp \in Range(sps) : sp[1] = k - 1 THEN OpenTag ELSE <<>>)
        \o EscapeChar(line[k])
        \o (IF \E sp \in Range(sps) : sp[2] = k THEN CloseTag ELSE <<>>)])

\* the ends of the texts from pos on that equal p from its k-th character on,
\* letter case ignored and every whitespace run of p standing for any non-empty
\* whitespace run
RECURSIVE FlexEnds(_, _, _, _)
FlexEnds(p, k, line, pos) ==
    IF k > Len(p) THEN {pos}
    ELSE IF p[k] \in {" ", "\t"}
         THEN IF k < Len(p) /\ p[k + 1] \in {" ", "\t"}
              THEN FlexEnds(p, k + 1, line, pos)
              ELSE UNION {FlexEnds(p, k + 1, line, pos + n) :
                          n \in {m \in 1..(Len(line) - pos) :
                                 \A j \in 1..m : line[pos + j] \in {" ", "\t"}}}
         ELSE IF pos < Len(line) /\ Fold(line[pos + 1]) = Fold(p[k])
              THEN FlexEnds(p, k + 1, line, pos + 1)
              ELSE {}

HasSpace(p) == \E k \in 1..Len(p) : p[k] \in {" ", "\t"}
Overlap(a, b, c, d) == a < d /\ c < b

(***************************************************************************)
(* C1. Injection safety of italicizeLineWholeWords: in the returned string *)
(* every '<' opens and every '>' closes an <i> or </i> tag, there are      *)
(* exactly one <i> and one </i> per matched span, every '&' starts one of  *)
(* the five entities, one entity per special character of the raw line,    *)
(* and no quote character appears.                                         *)
(***************************************************************************)
C1_InjectionSafe ==
    ipc = "done" =>
        /\ \A k \in 1..Len(out) :
              /\ out[k] = "<" =>
                    \/ StartsWithAt(out, k - 1, OpenTag)
                    \/ StartsWithAt(out, k - 1, CloseTag)
              /\ out[k] = ">" =>
                    \/ (k >= 3 /\ StartsWithAt(out, k - 3, OpenTag))
                    \/ (k >= 4 /\ StartsWithAt(out, k - 4, CloseTag))
              /\ out[k] = "&" => \E en \in Entities : StartsWithAt(out, k - 1, en)
              /\ out[k] \notin {"\"", "'"}
        /\ Count(out, "<") = 2 * Len(spans)
        /\ Count(out, ">") = 2 * Len(spans)
        /\ Count(out, "&") = Cardinality({k \in 1..Len(rawLine) : rawLine[k] \in HtmlSpecials})

\* a match whose consumed leading boundary is '<' and whose span holds a special
C1_Witness ==
    /\ ipc = "done"
    /\ \E sp \in Range(spans) :
          /\ sp[1] > 0 /\ rawLine[sp[1]] = "<"
          /\ \E k \in (sp[1] + 1)..sp[2] : rawLine[k] \in HtmlSpecials

(***************************************************************************)
(* C2. Whole-word boundary: with phrases made only of letters and digits,  *)
(* an occurrence of a phrase is an italic span if and only if it has a     *)
(* boundary (line start/end or a non-letter/non-digit) on both sides; the  *)
(* output is the escaped line with the tags exactly around the spans, so   *)
(* the leading boundary character stays outside the span.                  *)
(***************************************************************************)
C2_WholeWord ==
    (ipc = "done" /\ phrases # <<>> /\ AllAlnum(phrases)) =>
        /\ \A k \in 1..Len(phrases) : \A s \in 0..Len(rawLine) :
              OccursAt(phrases[k], rawLine, s) =>
                  (<<s, s + Len(phrases[k])>> \in Range(spans)
                      <=> Bounded(rawLine, s, s + Len(phrases[k])))
        /\ out = Render(rawLine, spans)

\* two italic occurrences separated by a single boundary character, and an
\* occurrence inside a longer word left alone
C2_Witness ==
    /\ ipc = "done" /\ phrases # <<>> /\ AllAlnum(phrases)
    /\ Len(spans) = 2 /\ spans[1][2] + 1 = spans[2][1]

C2_WitnessInside ==
    /\ ipc = "done" /\ phrases = <<P_art>> /\ rawLine = L_Artistic /\ out = L_Artistic

(***************************************************************************)
(* C3. Longest match wins: whenever a longer phrase occurs with valid      *)
(* boundaries and a shorter listed phrase occurs inside or overlapping     *)
(* that span, the longer phrase's span is italicized, once, and nothing    *)
(* else inside it is.                                                      *)
(***************************************************************************)
C3_LongestWins ==
    ipc = "done" =>
        \A q \in Range(phrases), p \in Range(phrases) :
            Len(p) < Len(q) =>
                \A s \in 0..Len(rawLine), s2 \in 0..Len(rawLine) :
                    ( /\ OccursAt(q, rawLine, s)
                      /\ Bounded(rawLine, s, s + Len(q))
                      /\ OccursAt(p, rawLine, s2)
                      /\ Overlap(s, s + Len(q), s2, s2 + Len(p)) )
                    => /\ Cardinality({k \in 1..Len(spans) : spans[k] = <<s, s + Len(q)>>}) = 1
                       /\ \A sp \in Range(spans) :
                             Overlap(s, s + Len(q), sp[1], sp[2]) => sp = <<s, s + Len(q)>>

(***************************************************************************)
(* C4. Whitespace flexibility: a boundary-delimited text that equals a     *)
(* phrase with every whitespace run replaced by any non-empty whitespace   *)
(* run is italicized.                                                      *)
(***************************************************************************)
C4_WhitespaceFlexible ==
    (ipc = "done" /\ Len(phrases) = 1 /\ HasSpace(phrases[1])) =>
        \A s \in 0..Len(rawLine) : \A e \in FlexEnds(phrases[1], 1, rawLine, s) :
            Bounded(rawLine, s, e) => <<s, e>> \in Range(spans)


(***************************************************************************)
(* normalizeHour                                                           *)
(***************************************************************************)
AllDigits(s) == \A k \in 1..Len(s) : s[k] \in Digits

\* ts.match(/^(\d+):(\d{2}):(\d{2}\.\d{3})$/): the three groups, when it matches
HourMatch(s) ==
    LET n == Len(s)
        h == SubSeq(s, 1, n - 10)
        t == SubSeq(s, n - 9, n)
    IN  IF /\ n >= 11
           /\ AllDigits(h)
           /\ t[1] = ":" /\ t[2] \in Digits /\ t[3] \in Digits
           /\ t[4] = ":" /\ t[5] \in Digits /\ t[6] \in Digits
           /\ t[7] = "." /\ t[8] \in Digits /\ t[9] \in Digits /\ t[10] \in Digits
        THEN [ok |-> TRUE, g1 |-> h, g2 |-> SubSeq(t, 2, 3), g3 |-> SubSeq(t, 5, 10)]
        ELSE [ok |-> FALSE, g1 |-> <<>>, g2 |-> <<>>, g3 |-> <<>>]

\* (mutant: no padding)
padStartNone(s, n, c) == s

\* s.padStart(n, c)
RECURSIVE padStart(_, _, _)
padStart(s, n, c) == IF Len(s) >= n THEN s ELSE padStart(<<c>> \o s, n, c)

normalizeHour(s) ==
    LET m == HourMatch(s)
    IN  IF ~m.ok THEN s
        ELSE padStart(m.g1, 2, "0") \o <<":">> \o m.g2 \o <<":">> \o m.g3

(***************************************************************************)
(* One call of normalizeHour                                               *)
(***************************************************************************)
MaxHourDigits == 3
HourDigitSet == {"0", "7"}
Hours == UNION {[1..k -> HourDigitSet] : k \in 1..MaxHourDigits}
Tails == {<<":","0","0",":","0","2",".","0","0","0">>,
          <<":","5","9",":","5","9",".","9","9","9">>}
WellFormed == {h \o t : h \in Hours, t \in Tails}
DropAt(s, k) == SubSeq(s, 1, k - 1) \o SubSeq(s, k + 1, Len(s))
PutAt(s, k, c) == SubSeq(s, 1, k - 1) \o <<c>> \o SubSeq(s, k, Len(s))
\* well-formed timestamps, and each of them with one character dropped or
\* one character put in
NormInputs ==
    WellFormed
    \cup UNION {{DropAt(w, k) : k \in 1..Len(w)} : w \in WellFormed}
    \cup UNION {{PutAt(w, k, c) : k \in 1..(Len(w) + 1), c \in {"5", ":", "x"}} : w \in WellFormed}

NormInit ==
    /\ ts \in NormInputs
    /\ nres = <<>>
    /\ npc = "call"
    /\ ItalIdle /\ ParseIdle

\* if (!m) return ts
NormUnchanged ==
    /\ npc = "call" /\ ~HourMatch(ts).ok
    /\ nres' = normalizeHour(ts)
    /\ npc' = "done"
    /\ UNCHANGED <<ts, ivars, pvars>>

\* return `${h}:${m[2]}:${m[3]}`
NormPadded ==
    /\ npc = "call" /\ HourMatch(ts).ok
    /\ nres' = normalizeHour(ts)
    /\ npc' = "done"
    /\ UNCHANGED <<ts, ivars, pvars>>

NormNext == NormUnchanged \/ NormPadded

SpecNorm == NormInit /\ [][NormNext]_vars

\* the fields of a string of the shape digits ':' 2 digits ':' 2 digits '.'
\* 3 digits
Fields(s) == Split(s, ":")
IsTimestamp(s) ==
    /\ Len(Fields(s)) = 3
    /\ Fields(s)[1] # <<>> /\ AllDigits(Fields(s)[1])
    /\ Len(Fields(s)[2]) = 2 /\ AllDigits(Fields(s)[2])
    /\ LET f == Split(Fields(s)[3], ".")
       IN  /\ Len(f) = 2
           /\ Len(f[1]) = 2 /\ AllDigits(f[1])
           /\ Len(f[2]) = 3 /\ AllDigits(f[2])

SplitLines(text) ==
    Split(ReplaceAll(ReplaceAll(text, <<"\r", "\n">>, <<"\n">>), <<"\r">>, <<"\n">>), "\n")

\* . in a pattern without the s flag
Dot(c) == c \notin {"\n", "\r"}

\* (mutant: group 1 is greedy, /^(.+),(.+?)$/)
TimeMatchGreedy(t) ==
    LET G == {g \in 1..(Len(t) - 2) : t[g + 1] = ","}
    IN  IF G # {}
        THEN LET g == CHOOSE x \in G : \A y \in G : x >= y
             IN  [ok |-> TRUE, g1 |-> SubSeq(t, 1, g), g2 |-> SubSeq(t, g + 2, Len(t))]
        ELSE [ok |-> FALSE, g1 |-> <<>>, g2 |-> <<>>]

\* timeLine.match(/^(.+?),(.+?)$/): group 1 is the shortest non-empty prefix
\* that a comma follows with at least one character after it
TimeMatch(t) ==
    LET G == {g \in 1..(Len(t) - 2) : t[g + 1] = ","}
    IN  IF G # {} /\ \A k \in 1..Len(t) : Dot(t[k])
        THEN LET g == CHOOSE x \in G : \A y \in G : x <= y
             IN  [ok |-> TRUE, g1 |-> SubSeq(t, 1, g), g2 |-> SubSeq(t, g + 2, Len(t))]
        ELSE [ok |-> FALSE, g1 |-> <<>>, g2 |-> <<>>]

Header == <<"W","E","B","V","T","T","\n","\n">>
Arrow == <<" ","-","-",">"," ">>

\* cueLines.map(l => italicizeLineWholeWords(l, italicsRe)).join("\n")
Processed(ls, re) == Join([k \in 1..Len(ls) |-> italicizeLineWholeWords(ls[k], re)], <<"\n">>)

\* `${start} --> ${end}\n${processed}\n\n`
CueBlock(st, en, ls, re) ==
    st \o Arrow \o en \o <<"\n">> \o Processed(ls, re) \o <<"\n", "\n">>

\* the line at index i, and lines[i].trim() === ""
Line == lines[i + 1]
Blank(l) == Trim(l) = <<>>

\* the conditions under which the loop takes each of its steps
AtBlank == pc = "seek" /\ i < Len(lines) /\ Blank(Line)
AtMalformed == pc = "seek" /\ i < Len(lines) /\ ~Blank(Line) /\ ~TimeMatch(Trim(Line)).ok
AtTimeLine == pc = "seek" /\ i < Len(lines) /\ ~Blank(Line) /\ TimeMatch(Trim(Line)).ok
AtText == pc = "collect" /\ i < Len(lines) /\ ~Blank(Line)
AtSeparator == pc \in {"collect", "separator"} /\ i < Len(lines) /\ Blank(Line)
AtCueEnd ==
    \/ pc \in {"collect", "separator"} /\ i >= Len(lines)
    \/ pc = "separator" /\ i < Len(lines) /\ ~Blank(Line)
AtEnd == pc = "seek" /\ i >= Len(lines)

\* if (!timeLine) { i++; continue; }
SkipBlank ==
    /\ AtBlank
    /\ i' = i + 1
    /\ consumed' = Append(consumed, <<i, "blank">>)
    /\ UNCHANGED <<sbvText, lines, pc, start, end, cueLines, vtt, cues, ivars, nvars>>

\* (mutant: a malformed line ends the parsing, break for continue)
SkipMalformedAbort ==
    /\ AtMalformed
    /\ i' = Len(lines)
    /\ consumed' = consumed \o [k \in 1..(Len(lines) - i) |-> <<i + k - 1, "malformed">>]
    /\ UNCHANGED <<sbvText, lines, pc, start, end, cueLines, vtt, cues, ivars, nvars>>

\* (mutant: the malformed line is looked at again, the i++ left out)
SkipMalformedAgain ==
    /\ AtMalformed
    /\ i' = i
    /\ consumed' = Append(consumed, <<i, "malformed">>)
    /\ UNCHANGED <<sbvText, lines, pc, start, end, cueLines, vtt, cues, ivars, nvars>>

\* if (!tm) { i++; continue; }
SkipMalformed ==
    /\ AtMalformed
    /\ i' = i + 1
    /\ consumed' = Append(consumed, <<i, "malformed">>)
    /\ UNCHANGED <<sbvText, lines, pc, start, end, cueLines, vtt, cues, ivars, nvars>>

\* const start = normalizeHour(tm[1].trim()); const end = ...; i++;
\* const cueLines = []
ReadTimeLine ==
    /\ AtTimeLine
    /\ LET tm == TimeMatch(Trim(Line))
       IN  /\ start' = normalizeHour(Trim(tm.g1))
           /\ end' = normalizeHour(Trim(tm.g2))
    /\ i' = i + 1
    /\ cueLines' = <<>>
    /\ pc' = "collect"
    /\ consumed' = Append(consumed, <<i, "time">>)
    /\ UNCHANGED <<sbvText, lines, vtt, cues, ivars, nvars>>

\* while (i < lines.length && lines[i].trim() !== "") { cueLines.push(lines[i]); i++; }
CollectLine ==
    /\ AtText
    /\ cueLines' = Append(cueLines, Line)
    /\ i' = i + 1
    /\ consumed' = Append(consumed, <<i, "text">>)
    /\ UNCHANGED <<sbvText, lines, pc, start, end, vtt, cues, ivars, nvars>>

\* while (i < lines.length && lines[i].trim() === "") i++;
SkipSeparator ==
    /\ AtSeparator
    /\ i' = i + 1
    /\ pc' = "separator"
    /\ consumed' = Append(consumed, <<i, "separator">>)
    /\ UNCHANGED <<sbvText, lines, start, end, cueLines, vtt, cues, ivars, nvars>>

\* vtt += `${start} --> ${end}\n${processed}\n\n`
EmitCue ==
    /\ AtCueEnd
    /\ vtt' = vtt \o CueBlock(start, end, cueLines, italicsRe)
    /\ cues' = Append(cues, [start |-> start, end |-> end, lines |-> cueLines])
    /\ pc' = "seek"
    /\ UNCHANGED <<sbvText, lines, i, start, end, cueLines, consumed, ivars, nvars>>

\* (mutant: the trailing blank line is kept)
ReturnValueNoTrim(v) == v

\* vtt.trimEnd() + "\n"
ReturnValue(v) == trimEnd(v) \o <<"\n">>

\* return vtt.trimEnd() + "\n"
Return ==
    /\ AtEnd
    /\ vtt' = ReturnValue(vtt)
    /\ pc' = "done"
    /\ UNCHANGED <<sbvText, lines, i, start, end, cueLines, cues, consumed, ivars, nvars>>

Next ==
    \/ SkipBlank
    \/ SkipMalformed
    \/ ReadTimeLine
    \/ CollectLine
    \/ SkipSeparator
    \/ EmitCue
    \/ Return

(***************************************************************************)
(* Inputs of the parser                                                    *)
(***************************************************************************)
V_Blank == <<>>
V_Space == <<" ">>
V_Time == <<"0",":","0","0",":","0","1",".","0","0","0",",","0",":","0","0",":","0","2",".","5","0","0">>
V_Time2 == <<"1","2",":","0","0",":","0","3",".","0","0","0",","," ","1","0","0",":","0","0",":","0","4",".","0","0","0">>
V_Text == <<"H","i"," ","<","b",">">>
V_Padded == <<" ","x"," ">>
V_Fields == <<"a"," ",","," ","b",",","c">>
V_CommaFirst == <<",","a",",","b">>
V_CommaLast == <<"a",",">>
V_NoComma == <<"0",":","0","0",":","0","5",".","0","0","0">>
V_TextComma == <<"Y","e","s",","," ","<","h","i",">">>
P_hi == <<"h","i">>

MaxDocLines == 3
LineVocab == {V_Blank, V_Space, V_Time, V_Text, V_Padded, V_Fields, V_CommaFirst, V_CommaLast}
\* every document of up to MaxDocLines lines of the vocabulary
ShortDocs == UNION {[1..k -> LineVocab] : k \in 1..MaxDocLines}

MaxCues == 2
CueBlocks ==
    {<<V_Time, V_TextComma, V_Blank>>, <<V_Time, V_Blank>>, <<V_Time2, V_Padded, V_Text, V_Blank, V_Space>>,
     <<V_Time2, V_Text, V_Padded>>, <<V_Text, V_Blank>>}
\* every document of up to MaxCues blocks
CueDocs == {Flatten(bs) : bs \in UNION {[1..k -> CueBlocks] : k \in 1..MaxCues}}

MaxInvalidLines == 2
InvalidHeads == {V_NoComma, V_Text}
InvalidTexts == {V_Text, V_TextComma, V_CommaLast}
\* a valid cue block, a block whose time line has no comma, a valid cue block
SkipDocs ==
    {<<V_Time, V_TextComma, V_Blank>> \o <<h>> \o t \o <<V_Blank>> \o <<V_Time2, V_Text>> \o e :
        h \in InvalidHeads,
        t \in UNION {[1..k -> InvalidTexts] : k \in 0..MaxInvalidLines},
        e \in {<<>>, <<V_Blank>>}}

Docs == ShortDocs \cup CueDocs \cup SkipDocs
LineEnds == {<<"\n">>, <<"\r", "\n">>, <<"\r">>}
ParsePhraseLists == {<<>>, <<P_hi>>}

\* the call sbvToVtt(sbvText, buildItalicsRegex(phrases)) of onRequest, with
\* sbvText not empty, up to the loop
Init ==
    /\ phrases \in ParsePhraseLists
    /\ italicsRe = buildItalicsRegex(phrases)
    /\ rawLine = <<>> /\ out = <<>> /\ last = 0 /\ lastIndex = 0 /\ spans = <<>>
    /\ ipc = "idle"
    /\ NormIdle
    /\ \E d \in Docs, nl \in LineEnds : sbvText = Join(d, nl)
    /\ sbvText # <<>>
    /\ lines = SplitLines(sbvText)
    /\ vtt = Header
    /\ i = 0
    /\ pc = "seek"
    /\ start = <<>> /\ end = <<>> /\ cueLines = <<>>
    /\ cues = <<>> /\ consumed = <<>>

Spec == Init /\ [][Next]_vars


(***************************************************************************)
(* Vocabulary of the properties of the parser                              *)
(***************************************************************************)
OutLines == Split(vtt, "\n")
Contains(s, pat) == \E q \in 0..Len(s) : StartsWithAt(s, q, pat)
HasComma(l) == \E k \in 1..Len(l) : l[k] = ","
\* the commas of a trimmed line that are neither its first nor its last character
InnerCommas(t) == {k \in 2..(Len(t) - 1) : t[k] = ","}
Kinds == {"blank", "malformed", "time", "text", "separator"}

\* the blocks of a document: its maximal runs of non-blank lines, in order
RunStarts(ls) == {k \in 1..Len(ls) : ~Blank(ls[k]) /\ (k = 1 \/ Blank(ls[k - 1]))}
RunEnd(ls, k) == Max({m \in k..Len(ls) : \A j \in k..m : ~Blank(ls[j])})
NthRun(ls, n) ==
    LET k == CHOOSE x \in RunStarts(ls) : Cardinality({y \in RunStarts(ls) : y <= x}) = n
    IN  SubSeq(ls, k, RunEnd(ls, k))

\* TIME1,TIME2
ValidTimeLine(l) ==
    LET f == Split(l, ",")
    IN  Len(f) = 2 /\ IsTimestamp(Trim(f[1])) /\ IsTimestamp(Trim(f[2]))
ValidCueBlock(b) == Len(b) >= 2 /\ ValidTimeLine(b[1])
CueOfBlock(b) ==
    [start |-> normalizeHour(Trim(Split(b[1], ",")[1])),
     end   |-> normalizeHour(Trim(Split(b[1], ",")[2])),
     lines |-> Tail(b)]

\* a valid cue block, then a block whose time line has no comma, then a valid
\* cue block
SkipShape ==
    /\ Cardinality(RunStarts(lines)) = 3
    /\ ValidCueBlock(NthRun(lines, 1))
    /\ ~HasComma(NthRun(lines, 2)[1])
    /\ ValidCueBlock(NthRun(lines, 3))

TwoValidCues ==
    /\ cues = <<CueOfBlock(NthRun(lines, 1)), CueOfBlock(NthRun(lines, 3))>>
    /\ Cardinality({k \in 1..Len(OutLines) : Contains(OutLines[k], Arrow)}) = 2
    /\ vtt = ReturnValue(Header
                \o CueBlock(cues[1].start, cues[1].end, cues[1].lines, italicsRe)
                \o CueBlock(cues[2].start, cues[2].end, cues[2].lines, italicsRe))

(***************************************************************************)
(* C5. Skip-and-continue on a malformed time line.  As claimed: for a      *)
(* valid cue block, then a block whose time line has no comma (whatever    *)
(* text lines follow it), then a valid cue block, exactly the two valid    *)
(* cues are emitted, in order, and nothing of the invalid block.           *)
(***************************************************************************)
C5_SkipWhateverFollows == (pc = "done" /\ SkipShape) => TwoValidCues

(***************************************************************************)
(* C5, amended.  The same, for an invalid block none of whose text lines   *)
(* has, once trimmed, a comma that is neither its first nor its last       *)
(* character: such a text line is read as a time line and starts a cue.    *)
(***************************************************************************)
NoTimeLikeText(b) == \A k \in 2..Len(b) : InnerCommas(Trim(b[k])) = {}

C5_SkipAndContinue ==
    (pc = "done" /\ SkipShape /\ NoTimeLikeText(NthRun(lines, 2))) => TwoValidCues

\* an invalid block with text lines after its malformed time line was skipped
C5_Witness ==
    /\ pc = "done" /\ SkipShape /\ NoTimeLikeText(NthRun(lines, 2))
    /\ Len(NthRun(lines, 2)) >= 3
    /\ Len(cues) = 2

(***************************************************************************)
(* C6. Output well-formedness.  As claimed: for every document the output  *)
(* is the line WEBVTT, one blank line, then zero or more cue blocks, each  *)
(* a 'start --> end' line followed by one or more text lines, consecutive  *)
(* blocks separated by exactly one blank line, and the output ends with    *)
(* exactly one newline and no trailing blank line.                         *)
(***************************************************************************)
EndsWithOneNewline(v) ==
    /\ Len(v) >= 2 /\ v[Len(v)] = "\n" /\ v[Len(v) - 1] # "\n"

\* the lines between the header's blank line and the final newline
Body == SubSeq(OutLines, 3, Len(OutLines) - 1)
BodyRunStarts == {k \in 1..Len(Body) : Body[k] # <<>> /\ (k = 1 \/ Body[k - 1] = <<>>)}
BodyRunEnd(k) == Max({m \in k..Len(Body) : \A j \in k..m : Body[j] # <<>>})

BlocksWellFormed ==
    /\ StartsWithAt(vtt, 0, Header)
    /\ \A k \in 1..Len(Body) :
          Body[k] = <<>> => (1 < k /\ k < Len(Body) /\ Body[k - 1] # <<>> /\ Body[k + 1] # <<>>)
    /\ \A k \in BodyRunStarts :
          /\ Contains(Body[k], Arrow)
          /\ BodyRunEnd(k) > k
          /\ \A j \in (k + 1)..BodyRunEnd(k) : ~Contains(Body[j], Arrow)
    /\ Cardinality(BodyRunStarts) = Len(cues)

C6_WellFormedAlways == pc = "done" => (BlocksWellFormed /\ EndsWithOneNewline(vtt))

(***************************************************************************)
(* C6, amended.  For every document the output starts with the line        *)
(* WEBVTT and ends with exactly one newline and no trailing blank line;    *)
(* when at least one cue is found and every cue found has at least one     *)
(* text line, the output is as claimed.  (A document without a cue gives   *)
(* WEBVTT and a newline, without the blank line; a cue without text lines  *)
(* gives a block of its time line alone followed by two blank lines.)      *)
(***************************************************************************)
C6_WellFormed ==
    pc = "done" =>
        /\ StartsWithAt(vtt, 0, <<"W","E","B","V","T","T","\n">>)
        /\ EndsWithOneNewline(vtt)
        /\ ~IsSpace(vtt[Len(vtt) - 1])
        /\ (cues # <<>> /\ \A k \in 1..Len(cues) : cues[k].lines # <<>>) => BlocksWellFormed

\* two cue blocks with text, separated by one blank line
C6_Witness ==
    /\ pc = "done" /\ Len(cues) = 2
    /\ \A k \in 1..Len(cues) : cues[k].lines # <<>>
    /\ \E k \in 1..Len(Body) : Body[k] = <<>>

(***************************************************************************)
(* C8. Totality and termination of the parser: the loop reaches its        *)
(* terminal state with the input exhausted (until then it has exactly one  *)
(* next step, and every step lowers a measure that is never negative);     *)
(* the line index never decreases and every iteration of the outer loop    *)
(* starts by increasing it; the lines are consumed one by one in order,    *)
(* each exactly once, as a skipped blank line, a discarded malformed line, *)
(* a time line, a cue text line or a separator blank line.                 *)
(***************************************************************************)
\* what is left to do: the lines not yet consumed, then the block to emit,
\* then the return
Measure ==
    3 * (Len(lines) - i)
    + (CASE pc = "done" -> 0 [] pc = "seek" -> 1 [] OTHER -> 2)

ConsumedOnce ==
    /\ Len(consumed) = i
    /\ \A k \in 1..Len(consumed) : consumed[k][1] = k - 1 /\ consumed[k][2] \in Kinds
    /\ i <= Len(lines)
    /\ pc = "done" => i = Len(lines)

\* how many of the loop's steps can be taken
StepsOpen ==
    Cardinality({k \in 1..7 :
        <<AtBlank, AtMalformed, AtTimeLine, AtText, AtSeparator, AtCueEnd, AtEnd>>[k]})

C8_Total ==
    /\ [](StepsOpen = IF pc = "done" THEN 0 ELSE 1)
    /\ [](Measure >= 0)
    /\ [][Measure' < Measure]_vars
    /\ [][i' >= i /\ ((pc = "seek" /\ pc' # "done") => i' = i + 1)]_vars
    /\ []ConsumedOnce

\* a document whose lines were consumed in all five ways
C8_Witness ==
    /\ pc = "done"
    /\ {consumed[k][2] : k \in 1..Len(consumed)} = Kinds

(***************************************************************************)
(* C9. Time-line recognition while seeking.  As claimed: a non-blank line  *)
(* is discarded as malformed if and only if it has no comma; any other     *)
(* starts a cue whose start is the trimmed text before the first comma and *)
(* whose end is the trimmed text after that comma, each passed through     *)
(* normalizeHour.                                                          *)
(***************************************************************************)
\* the line that started the cue being collected
TimeLineRead == Trim(lines[i - Len(cueLines)])
FirstComma(t) == Min({k \in 1..Len(t) : t[k] = ","})

C9_FirstComma ==
    /\ \A k \in 1..Len(consumed) :
          consumed[k][2] \in {"malformed", "time"} =>
              (consumed[k][2] = "malformed" <=> ~HasComma(lines[k]))
    /\ pc = "collect" =>
          /\ HasComma(TimeLineRead)
          /\ start = normalizeHour(Trim(SubSeq(TimeLineRead, 1, FirstComma(TimeLineRead) - 1)))
          /\ end = normalizeHour(Trim(SubSeq(TimeLineRead, FirstComma(TimeLineRead) + 1,
                                             Len(TimeLineRead))))

(***************************************************************************)
(* C9, amended.  A non-blank line is discarded as malformed if and only    *)
(* if its trimmed text has no comma that is neither its first nor its last *)
(* character; any other starts a cue whose start is the trimmed text       *)
(* before the first comma that is not the first character and whose end is *)
(* the trimmed text after that comma (later commas belong to the end),     *)
(* each passed through normalizeHour.                                      *)
(***************************************************************************)
C9_FirstInnerComma ==
    /\ \A k \in 1..Len(consumed) :
          consumed[k][2] \in {"malformed", "time"} =>
              (consumed[k][2] = "malformed" <=> InnerCommas(Trim(lines[k])) = {})
    /\ pc = "collect" =>
          /\ InnerCommas(TimeLineRead) # {}
          /\ start = normalizeHour(Trim(SubSeq(TimeLineRead, 1, Min(InnerCommas(TimeLineRead)) - 1)))
          /\ end = normalizeHour(Trim(SubSeq(TimeLineRead, Min(InnerCommas(TimeLineRead)) + 1,
                                             Len(TimeLineRead))))

\* a time line with two commas was read, after a line without one was discarded
C9_Witness ==
    /\ pc = "collect"
    /\ Cardinality(InnerCommas(TimeLineRead)) = 2
    /\ \E k \in 1..Len(consumed) : consumed[k][2] = "malformed"

(***************************************************************************)
(* C10. Text preservation.  As claimed: the text lines of every cue in the *)
(* output, with the <i> and </i> tags deleted and the escaping reversed,   *)
(* are exactly the raw lines collected for the cue, whitespace at both     *)
(* ends included, the last line of the last cue too.                       *)
(***************************************************************************)
\* s with every occurrence of the texts in pats deleted or replaced: pats maps
\* a text to what stands for it, and no two occurrences overlap
Rewrite(s, pats) ==
    LET hit(k) == {pr \in pats : StartsWithAt(s, k - 1, pr[1])}
        inside(k) == \E j \in 1..(k - 1) : \E pr \in hit(j) : k < j + Len(pr[1])
    IN  Flatten([k \in 1..Len(s) |->
            IF inside(k) THEN <<>>
            ELSE IF hit(k) # {} THEN (CHOOSE pr \in hit(k) : TRUE)[2]
            ELSE <<s[k]>>])

StripTags(s) == Rewrite(s, {<<OpenTag, <<>>>>, <<CloseTag, <<>>>>})
Unescape(s) == Rewrite(s, {<<EscapeChar(c), <<c>>>> : c \in HtmlSpecials})

\* the number of output lines before the j-th cue's block: a block is its time
\* line, its text lines (one empty line when it has none) and a blank line
RECURSIVE LinesBefore(_)
LinesBefore(j) ==
    IF j <= 1 THEN 2
    ELSE LinesBefore(j - 1) + 2
         + (IF cues[j - 1].lines = <<>> THEN 1 ELSE Len(cues[j - 1].lines))
\* the l-th text line of the j-th cue, as the output has it
OutText(j, l) == OutLines[LinesBefore(j) + 1 + l]

C10_TextPreservedEverywhere ==
    pc = "done" =>
        \A j \in 1..Len(cues) : \A l \in 1..Len(cues[j].lines) :
            Unescape(StripTags(OutText(j, l))) = cues[j].lines[l]

(***************************************************************************)
(* C10, amended.  The same, except that the last line of the last cue      *)
(* comes out without its trailing whitespace.                              *)
(***************************************************************************)
C10_TextPreserved ==
    pc = "done" =>
        \A j \in 1..Len(cues) : \A l \in 1..Len(cues[j].lines) :
            Unescape(StripTags(OutText(j, l))) =
                IF j = Len(cues) /\ l = Len(cues[j].lines)
                THEN trimEnd(cues[j].lines[l])
                ELSE cues[j].lines[l]

\* a cue line with an italic phrase after a consumed boundary that is a special
\* character, and a last line that ends in whitespace
C10_Witness ==
    /\ pc = "done" /\ cues # <<>>
    /\ \E j \in 1..Len(cues) : \E l \in 1..Len(cues[j].lines) :
          Contains(OutText(j, l), EscapeChar("<") \o OpenTag)
    /\ LET c == cues[Len(cues)]
       IN  c.lines # <<>> /\ IsSpace(c.lines[Len(c.lines)][Len(c.lines[Len(c.lines)])])


====
